---- MODULE Spec2Model ----
(***************************************************************************)
(* Audit-chain verification of ILLUVRSE/Main.                              *)
(*                                                                         *)
(* The module models kernel/tools/verify_audit_chain.py: the canonical     *)
(* encoder (normalize, json.dumps with sorted keys), the hash recomputer   *)
(* (compute_hash), the signature verifier (verify_signature) and the       *)
(* chain verifier (verify_chain), whose loop is taken one check at a time, *)
(* and the loading of the events in main (SpecLoad).  It also models       *)
(* memory-layer/tools/verify_artifacts.py in JSON-export mode              *)
(* (SpecArtifacts), RepoWriter/server/tools/verify_audit_chain.py          *)
(* (SpecRepoWriter) and infra/lambda/github_dispatch_lambda.py             *)
(* (SpecDispatch).                                                         *)
(*                                                                         *)
(* Specifications                                                          *)
(*  - Spec: verify_chain on event sequences of sound and damaged events.   *)
(*  - SpecRerun: verify_chain run again on the same events.                *)
(*  - SpecGenesis: verify_chain on slices whose first event has any        *)
(*    prevHash.                                                            *)
(*  - SpecCanon: verify_chain on pairs of events with nested payloads.     *)
(*  - SpecLoad: main, from the file or the object store to verify_chain.   *)
(*  - SpecArtifacts: verify_artifacts.py on a JSON export.                 *)
(*  - SpecRuns: verify_chain called several times, on new events.          *)
(*  - SpecSigned: verify_chain on soundly linked events whose signatures   *)
(*    travel in several encodings, under a good, a bad or no key.          *)
(*  - SpecRepoWriter: the RepoWriter link check beside verify_chain.       *)
(*  - SpecDispatch: lambda_handler on one event.                           *)
(*                                                                         *)
(* Modelling conventions                                                   *)
(*  - An event is a Python dict: a function whose DOMAIN is the set of     *)
(*    keys that are present.  event['k'] on an absent key raises KeyError, *)
(*    event.get('k') yields None.                                          *)
(*  - A JSON value is a record [t, v, items]; a mapping keeps its items in *)
(*    insertion order, each item [k, val], keys being one-character        *)
(*    strings given by their code point.                                   *)
(*  - The JSON text of a value is the sequence of its tokens.               *)
(*  - SHA-256 is collision-free: the digest of a text is the tagged text.  *)
(*    A hash value is None (<<>>), a literal that is no digest             *)
(*    (<<"deadbeef">>) or a digest (<<"sha256", text>>).                   *)
(*  - An Ed25519 signature is the record of who signed what; it verifies   *)
(*    under a key and a message iff it is intact and was made with that    *)
(*    key over that message.                                               *)
(*  - Every print of a FAIL line is one entry of findings, tagged with the *)
(*    0-based position of the event.                                       *)
(***************************************************************************)
EXTENDS Integers, Sequences, FiniteSets, TLC

VARIABLES
    HAS_CRYPTO,       \* module global set at import time (lines 14-20)
    events,           \* argument of verify_chain
    public_key_pem,   \* argument of verify_chain
    pc,               \* position of the run inside verify_chain
    i,                \* loop index of enumerate(events), 0-based
    valid,            \* local of verify_chain
    previous_hash,    \* local of verify_chain: the chain state
    findings,         \* the FAIL lines printed so far, in order
    sig_calls,        \* positions for which verify_signature was invoked
    ret,              \* what the call gave its caller
    returned,         \* results of the calls completed so far, in order
    args,             \* main: where the events come from (--file, --s3-bucket)
    json_file,        \* verify_artifacts: the data of the JSON export
    artifacts_data,   \* local of verify_artifacts
    audit_lookup,     \* local of verify_artifacts
    success,          \* local of verify_artifacts
    lines,            \* the verdict printed for each artifact scanned so far
    artifacts_pc,     \* position of verify_artifacts.py, or how it ended
    repo_writer,      \* RepoWriter verify_chain: its argument, index and result
    dispatch          \* github_dispatch_lambda: one invocation of lambda_handler

\* The state of verify_artifacts.py.
artifactVars == <<json_file, artifacts_data, audit_lookup, success, lines,
                  artifacts_pc>>

\* The state of the RepoWriter verifier and of the dispatch lambda.
toolVars == <<repo_writer, dispatch>>

vars == <<HAS_CRYPTO, events, public_key_pem, pc, i, valid, previous_hash,
          findings, sig_calls, ret, returned, args, artifactVars, toolVars>>

----------------------------------------------------------------------------
(* Bounds of the model *)

MaxLen == 3

MaxRuns == 2

MaxRerunLen == 2

----------------------------------------------------------------------------
(* Values *)

None == <<>>

DeadBeef == <<"deadbeef">>

NoKey == "None"

SignerKey == "pem:K"

Keys == {NoKey, SignerKey}

Has(event, k) == k \in DOMAIN event

Get(event, k) == IF Has(event, k) THEN event[k] ELSE None

Scalar(n) == [t |-> "scalar", v |-> n, items |-> <<>>]

List(xs) == [t |-> "list", v |-> 0, items |-> xs]

Dict(kvs) == [t |-> "dict", v |-> 0, items |-> kvs]

Item(k, val) == [k |-> k, val |-> val]

----------------------------------------------------------------------------
(* Canonical encoder and hash recomputer *)

RECURSIVE SortedItems(_)
\* sorted(obj.items()): the items of a mapping in ascending key order
\* (keys of a mapping are distinct, so the values are never compared).
SortedItems(kvs) ==
    IF kvs = <<>> THEN <<>>
    ELSE LET m == CHOOSE a \in 1..Len(kvs) :
                      \A b \in 1..Len(kvs) : kvs[a].k <= kvs[b].k
             rest == [j \in 1..(Len(kvs) - 1) |->
                          IF j < m THEN kvs[j] ELSE kvs[j + 1]]
         IN  <<kvs[m]>> \o SortedItems(rest)

RECURSIVE normalize(_)
normalize(obj) ==
    IF obj.t = "scalar" THEN obj
    ELSE IF obj.t = "list"
         THEN List([j \in 1..Len(obj.items) |-> normalize(obj.items[j])])
         ELSE LET s == SortedItems(obj.items)
              IN  Dict([j \in 1..Len(s) |-> Item(s[j].k, normalize(s[j].val))])

RECURSIVE JsonText(_, _), JsonItems(_, _), JsonElements(_, _)
\* The JSON text of a value with separators (',', ':'), as the sequence of
\* its tokens: a number or a key's code point stands for itself, the
\* punctuation { } [ ] , : is -1 .. -6.  With sort_keys every mapping is
\* written in ascending key order.
JsonText(obj, sort_keys) ==
    IF obj.t = "scalar" THEN <<obj.v>>
    ELSE IF obj.t = "list"
         THEN <<-3>> \o JsonElements(obj.items, sort_keys) \o <<-4>>
         ELSE <<-1>> \o JsonItems(IF sort_keys THEN SortedItems(obj.items)
                                  ELSE obj.items, sort_keys) \o <<-2>>

JsonItems(kvs, sort_keys) ==
    IF kvs = <<>> THEN <<>>
    ELSE <<kvs[1].k, -6>> \o JsonText(kvs[1].val, sort_keys)
         \o (IF Len(kvs) = 1 THEN <<>> ELSE <<-5>> \o JsonItems(Tail(kvs), sort_keys))

JsonElements(xs, sort_keys) ==
    IF xs = <<>> THEN <<>>
    ELSE JsonText(xs[1], sort_keys)
         \o (IF Len(xs) = 1 THEN <<>> ELSE <<-5>> \o JsonElements(Tail(xs), sort_keys))

\* json.dumps(value, sort_keys=True, separators=(',', ':'))
dumps(obj) == JsonText(obj, TRUE)

sha256(text) == <<"sha256", text>>

\* compute_hash with the payload serialized as it was inserted.
compute_hash_Unsorted(event_type, payload, prev_hash, ts) ==
    sha256(<<event_type, JsonText(payload, FALSE), prev_hash, ts>>)

\* compute_hash that puts the keys of the payload itself in order, and
\* leaves the mappings inside it as they were inserted.
compute_hash_SortsTopLevel(event_type, payload, prev_hash, ts) ==
    sha256(<<event_type,
             JsonText(IF payload.t = "dict" THEN Dict(SortedItems(payload.items))
                      ELSE payload, FALSE),
             prev_hash, ts>>)

compute_hash(event_type, payload, prev_hash, ts) ==
    sha256(<<event_type, dumps(normalize(payload)), prev_hash, ts>>)

----------------------------------------------------------------------------
(* Signature verifier *)

Sign(key, message) == [signer |-> key, over |-> message, intact |-> TRUE]

Flip(sigbytes) == [sigbytes EXCEPT !.intact = FALSE]

Garbage == [signer |-> "", over |-> None, intact |-> FALSE]

\* The transport text of a signature: its bytes in an encoding.
Base64(sigbytes) == [enc |-> "base64", bytes |-> sigbytes]

Hex(sigbytes) == [enc |-> "hex", bytes |-> sigbytes]

Undecodable == [enc |-> "neither", bytes |-> Garbage]

\* event.get('signature') of an event without one (None), or an empty text.
NoSignature == [enc |-> "none", bytes |-> Garbage]

GetSignature(event) ==
    IF "signature" \in DOMAIN event THEN event.signature ELSE NoSignature

\* serialization.load_pem_public_key: the key of a well-formed PEM text.
load_pem_public_key(pem) ==
    IF pem = SignerKey THEN [ok |-> TRUE, key |-> "K"]
    ELSE [ok |-> FALSE, key |-> ""]

\* base64.b64decode without validation: a text over the base64 alphabet whose
\* length is a multiple of four decodes; the 128 hexadecimal digits of a
\* 64-byte signature are such a text, and decode to other bytes.
b64decode(text) ==
    IF text.enc = "base64" THEN [ok |-> TRUE, bytes |-> text.bytes]
    ELSE IF text.enc = "hex" THEN [ok |-> TRUE, bytes |-> Garbage]
    ELSE [ok |-> FALSE, bytes |-> Garbage]

\* The hexadecimal digits of an odd number of bytes (which are no 64-byte
\* signature): their count is no multiple of four, so base64 rejects them.
HexOdd == [enc |-> "hex odd", bytes |-> Garbage]

fromhex(text) ==
    IF text.enc \in {"hex", "hex odd"} THEN [ok |-> TRUE, bytes |-> text.bytes]
    ELSE [ok |-> FALSE, bytes |-> Garbage]

\* Ed25519PublicKey.verify: no exception iff the signature is the one made
\* with the key's private half over the message.
Ed25519Verify(key, sigbytes, message) ==
    sigbytes.intact /\ sigbytes.signer = key /\ sigbytes.over = message

verify_signature(pem, signature_hex, data_hash) ==
    IF ~HAS_CRYPTO THEN TRUE
    ELSE LET public_key == load_pem_public_key(pem)
             primary    == b64decode(signature_hex)
             signature  == IF primary.ok THEN primary ELSE fromhex(signature_hex)
         IN  IF ~public_key.ok THEN FALSE
             ELSE IF ~signature.ok THEN FALSE
             ELSE Ed25519Verify(public_key.key, signature.bytes, data_hash)

----------------------------------------------------------------------------
(* Inputs *)

EventType == "audit"

Ts == 1

\* {"b": 1, "a": 2} and {"b": 1, "a": 3}, keys in insertion order.
Payload1 == Dict(<<Item(98, Scalar(1)), Item(97, Scalar(2))>>)

Payload2 == Dict(<<Item(98, Scalar(1)), Item(97, Scalar(3))>>)

Payloads == {Payload1, Payload2}

AuditEvent(payload, prevHash, hash) ==
    [eventType |-> EventType, payload |-> payload, prevHash |-> prevHash,
     ts |-> Ts, hash |-> hash]

Signed(event, signature) ==
    [k \in DOMAIN event \cup {"signature"} |->
        IF k = "signature" THEN signature ELSE event[k]]

Without(event, field) == [k \in DOMAIN event \ {field} |-> event[k]]

RequiredFields == <<"eventType", "payload", "ts", "hash">>

\* The hash the producing system stores (auditStore.ts computeHash, as the
\* comments of compute_hash describe it): SHA-256 of the JSON text of
\* {eventType, payload: normalize(payload), prevHash, ts}.
ProducerHash(event_type, payload, prev_hash, ts) ==
    sha256(<<event_type, dumps(normalize(payload)), prev_hash, ts>>)

\* The ways an event can stand to its predecessor's stored hash hp and to its
\* own stored hash: "sound" (linked to hp, hash computed over its fields),
\* "payload" (payload replaced after hashing), "foreign" (linked to a foreign
\* hash, hash computed over its fields), "relinked" (prevHash replaced after
\* hashing).
BodyKinds == <<"sound", "payload", "foreign", "relinked">>

Body(hp, kind) ==
    IF kind = "sound"
    THEN AuditEvent(Payload1, hp, ProducerHash(EventType, Payload1, hp, Ts))
    ELSE IF kind = "payload"
    THEN AuditEvent(Payload2, hp, ProducerHash(EventType, Payload1, hp, Ts))
    ELSE IF kind = "foreign"
    THEN AuditEvent(Payload1, DeadBeef, ProducerHash(EventType, Payload1, DeadBeef, Ts))
    ELSE AuditEvent(Payload1, DeadBeef, ProducerHash(EventType, Payload1, hp, Ts))

\* No signature, the signature the producer made over the stored hash, and
\* that signature with one byte flipped.
SignatureKinds == <<"none", "valid", "flipped">>

WithSignature(event, kind) ==
    IF kind = "none" THEN event
    ELSE IF kind = "valid" THEN Signed(event, Base64(Sign("K", event.hash)))
    ELSE Signed(event, Base64(Flip(Sign("K", event.hash))))

NumBodies == Len(BodyKinds) * Len(SignatureKinds)

NumShapes == NumBodies + Len(RequiredFields)

\* The c-th event that can follow an event whose stored hash is hp: a body
\* with or without a signature, or a sound event lacking a required field.
Shape(hp, c) ==
    IF c <= NumBodies
    THEN WithSignature(Body(hp, BodyKinds[((c - 1) % Len(BodyKinds)) + 1]),
                       SignatureKinds[((c - 1) \div Len(BodyKinds)) + 1])
    ELSE Without(Body(hp, "sound"), RequiredFields[c - NumBodies])

LastHash(s) == IF s = <<>> THEN None ELSE Get(s[Len(s)], "hash")

RECURSIVE Chain(_)
\* The event sequence whose n-th event is the choice[n]-th shape that can
\* follow its predecessor.
Chain(choice) ==
    IF choice = <<>> THEN <<>>
    ELSE LET s == Chain(SubSeq(choice, 1, Len(choice) - 1))
         IN  Append(s, Shape(LastHash(s), choice[Len(choice)]))

\* An event lacking a required field ends the run (KeyError), so nothing that
\* follows it is read: it is the last event of the sequences considered.
Choices ==
    UNION {{choice \in [1..n -> 1..NumShapes] :
               \A k \in 1..(n - 1) : choice[k] <= NumBodies} : n \in 0..MaxLen}

----------------------------------------------------------------------------
(* verify_chain *)

Finding(kind, pos) == [kind |-> kind, pos |-> pos]

Outcome(r, out, calls) ==
    [events |-> events, key |-> public_key_pem, ret |-> r, findings |-> out,
     sig_calls |-> calls]

\* The first key whose lookup raises KeyError in the hash check: the
\* arguments of compute_hash are evaluated left to right (lines 161-164),
\* event['hash'] after them (line 167).
MissingAt(event) ==
    LET absent == {n \in 1..Len(RequiredFields) : ~Has(event, RequiredFields[n])}
    IN  IF absent = {} THEN 0
        ELSE CHOOSE n \in absent : \A m \in absent : n <= m

\* verify_chain called with its two arguments, not through main.
NoArgs == [direct |-> TRUE]

\* verify_artifacts.py is not run.
NoExport == [artifacts |-> <<>>, audit_events |-> <<>>]

ArtifactsIdle ==
    /\ json_file = NoExport
    /\ artifacts_data = <<>>
    /\ audit_lookup = <<>>
    /\ success = TRUE
    /\ lines = <<>>
    /\ artifacts_pc = "idle"

\* Neither the RepoWriter verifier nor the lambda is run.
ToolsIdle ==
    /\ repo_writer = [pc |-> "idle"]
    /\ dispatch = [pc |-> "idle"]

\* Nothing of verify_chain has run yet.
Fresh ==
    /\ i = 0
    /\ valid = TRUE
    /\ previous_hash = None
    /\ findings = <<>>
    /\ sig_calls = {}
    /\ ret = "pending"
    /\ returned = <<>>

Init ==
    /\ HAS_CRYPTO \in BOOLEAN
    /\ \E choice \in Choices : events = Chain(choice)
    /\ public_key_pem \in Keys
    /\ pc = "call"
    /\ i = 0
    /\ valid = TRUE
    /\ previous_hash = None
    /\ findings = <<>>
    /\ sig_calls = {}
    /\ ret = "pending"
    /\ returned = <<>>
    /\ args = NoArgs
    /\ ArtifactsIdle
    /\ ToolsIdle

\* Enter that starts from the verdict the locals were left with.
Enter_KeepsValid ==
    /\ pc = "call"
    /\ i' = 0
    /\ previous_hash' = None
    /\ findings' = <<>>
    /\ sig_calls' = {}
    /\ UNCHANGED valid
    /\ IF events = <<>>
       THEN /\ pc' = "done"
            /\ ret' = "True"
            /\ returned' = Append(returned, Outcome("True", <<>>, {}))
       ELSE /\ pc' = "hash"
            /\ UNCHANGED <<ret, returned>>
    /\ UNCHANGED <<args, artifactVars, toolVars, HAS_CRYPTO, events, public_key_pem>>

\* Lines 131-151: the empty-sequence return and the initial chain state.
Enter ==
    /\ pc = "call"
    /\ i' = 0
    /\ valid' = TRUE
    /\ previous_hash' = None
    /\ findings' = <<>>
    /\ sig_calls' = {}
    /\ IF events = <<>>
       THEN /\ pc' = "done"
            /\ ret' = "True"
            /\ returned' = Append(returned, Outcome("True", <<>>, {}))
       ELSE /\ pc' = "hash"
            /\ UNCHANGED <<ret, returned>>
    /\ UNCHANGED <<args, artifactVars, toolVars, HAS_CRYPTO, events, public_key_pem>>

\* VerifyHash that compares hashes only while the run is still valid.
VerifyHash_StopsAfterFailure ==
    /\ pc = "hash"
    /\ LET event == events[i + 1]
       IN  IF MissingAt(event) # 0
           THEN /\ pc' = "raised"
                /\ ret' = "KeyError"
                /\ returned' = Append(returned, Outcome("KeyError", findings, sig_calls))
                /\ UNCHANGED <<valid, findings>>
           ELSE LET calc_hash == compute_hash(event.eventType, event.payload,
                                              Get(event, "prevHash"), event.ts)
                IN  /\ IF valid /\ calc_hash # event.hash
                       THEN /\ findings' = Append(findings, Finding("HashMismatch", i))
                            /\ valid' = FALSE
                       ELSE UNCHANGED <<valid, findings>>
                    /\ pc' = "link"
                    /\ UNCHANGED <<ret, returned>>
    /\ UNCHANGED <<args, artifactVars, toolVars, HAS_CRYPTO, events, public_key_pem, i, previous_hash, sig_calls>>

\* VerifyHash that sorts the keys of the payload in the event itself.
VerifyHash_NormalizesInPlace ==
    /\ pc = "hash"
    /\ LET event == events[i + 1]
       IN  IF MissingAt(event) # 0
           THEN /\ pc' = "raised"
                /\ ret' = "KeyError"
                /\ returned' = Append(returned, Outcome("KeyError", findings, sig_calls))
                /\ UNCHANGED <<valid, findings>>
           ELSE LET calc_hash == compute_hash(event.eventType, event.payload,
                                              Get(event, "prevHash"), event.ts)
                IN  /\ IF calc_hash # event.hash
                       THEN /\ findings' = Append(findings, Finding("HashMismatch", i))
                            /\ valid' = FALSE
                       ELSE UNCHANGED <<valid, findings>>
                    /\ pc' = "link"
                    /\ UNCHANGED <<ret, returned>>
    /\ events' = [events EXCEPT ![i + 1] =
                     IF Has(@, "payload")
                     THEN [k \in DOMAIN @ |-> IF k = "payload" THEN normalize(@[k]) ELSE @[k]]
                     ELSE @]
    /\ UNCHANGED <<args, artifactVars, toolVars, HAS_CRYPTO, public_key_pem, i, previous_hash, sig_calls>>

\* Lines 156-171: recompute the digest and compare it with the stored hash.
VerifyHash ==
    /\ pc = "hash"
    /\ LET event == events[i + 1]
       IN  IF MissingAt(event) # 0
           THEN /\ pc' = "raised"
                /\ ret' = "KeyError"
                /\ returned' = Append(returned, Outcome("KeyError", findings, sig_calls))
                /\ UNCHANGED <<valid, findings>>
           ELSE LET calc_hash == compute_hash(event.eventType, event.payload,
                                              Get(event, "prevHash"), event.ts)
                IN  /\ IF calc_hash # event.hash
                       THEN /\ findings' = Append(findings, Finding("HashMismatch", i))
                            /\ valid' = FALSE
                       ELSE UNCHANGED <<valid, findings>>
                    /\ pc' = "link"
                    /\ UNCHANGED <<ret, returned>>
    /\ UNCHANGED <<args, artifactVars, toolVars, HAS_CRYPTO, events, public_key_pem, i, previous_hash, sig_calls>>

\* VerifyLink that advances the chain state to the recomputed digest.
VerifyLink_AdvancesToDigest ==
    /\ pc = "link"
    /\ LET event == events[i + 1]
       IN  /\ IF i > 0 /\ Get(event, "prevHash") # previous_hash
              THEN /\ findings' = Append(findings, Finding("ChainBreak", i))
                   /\ valid' = FALSE
              ELSE UNCHANGED <<valid, findings>>
           /\ previous_hash' = compute_hash(event.eventType, event.payload,
                                         Get(event, "prevHash"), event.ts)
    /\ pc' = "sig"
    /\ UNCHANGED <<args, artifactVars, toolVars, HAS_CRYPTO, events, public_key_pem, i, sig_calls, ret, returned>>

\* VerifyLink that leaves the chain state where it was when the link is broken.
VerifyLink_StaysOnBreak ==
    /\ pc = "link"
    /\ LET event == events[i + 1]
       IN  /\ IF i > 0 /\ Get(event, "prevHash") # previous_hash
              THEN /\ findings' = Append(findings, Finding("ChainBreak", i))
                   /\ valid' = FALSE
              ELSE UNCHANGED <<valid, findings>>
           /\ previous_hash' = IF i > 0 /\ Get(event, "prevHash") # previous_hash
                            THEN previous_hash ELSE event.hash
    /\ pc' = "sig"
    /\ UNCHANGED <<args, artifactVars, toolVars, HAS_CRYPTO, events, public_key_pem, i, sig_calls, ret, returned>>

\* VerifyLink that holds the first event to the initial chain state.
VerifyLink_FromFirst ==
    /\ pc = "link"
    /\ LET event == events[i + 1]
       IN  /\ IF Get(event, "prevHash") # previous_hash
              THEN /\ findings' = Append(findings, Finding("ChainBreak", i))
                   /\ valid' = FALSE
              ELSE UNCHANGED <<valid, findings>>
           /\ previous_hash' = event.hash
    /\ pc' = "sig"
    /\ UNCHANGED <<args, artifactVars, toolVars, HAS_CRYPTO, events, public_key_pem, i, sig_calls, ret, returned>>

\* VerifyLink that takes the link check up one event late.
VerifyLink_FromThird ==
    /\ pc = "link"
    /\ LET event == events[i + 1]
       IN  /\ IF i > 1 /\ Get(event, "prevHash") # previous_hash
              THEN /\ findings' = Append(findings, Finding("ChainBreak", i))
                   /\ valid' = FALSE
              ELSE UNCHANGED <<valid, findings>>
           /\ previous_hash' = event.hash
    /\ pc' = "sig"
    /\ UNCHANGED <<args, artifactVars, toolVars, HAS_CRYPTO, events, public_key_pem, i, sig_calls, ret, returned>>

\* VerifyLink whose finding goes before what was printed so far.
VerifyLink_PrintsFirst ==
    /\ pc = "link"
    /\ LET event == events[i + 1]
       IN  /\ IF i > 0 /\ Get(event, "prevHash") # previous_hash
              THEN /\ findings' = <<Finding("ChainBreak", i)>> \o findings
                   /\ valid' = FALSE
              ELSE UNCHANGED <<valid, findings>>
           /\ previous_hash' = event.hash
    /\ pc' = "sig"
    /\ UNCHANGED <<args, artifactVars, toolVars, HAS_CRYPTO, events, public_key_pem, i, sig_calls, ret, returned>>

\* Lines 173-189: compare prevHash with the chain state, then advance it.
VerifyLink ==
    /\ pc = "link"
    /\ LET event == events[i + 1]
       IN  /\ IF i > 0 /\ Get(event, "prevHash") # previous_hash
              THEN /\ findings' = Append(findings, Finding("ChainBreak", i))
                   /\ valid' = FALSE
              ELSE UNCHANGED <<valid, findings>>
           /\ previous_hash' = event.hash
    /\ pc' = "sig"
    /\ UNCHANGED <<args, artifactVars, toolVars, HAS_CRYPTO, events, public_key_pem, i, sig_calls, ret, returned>>

\* Python truth of the two operands of line 197: None and the empty string
\* are false.
TruthyKey(pem) == pem # NoKey /\ pem # ""

TruthySignature(signature) == signature.enc # "none"

\* VerifySignature that takes the outcome of the signature check as the verdict.
VerifySignature_ResetsValid ==
    /\ pc = "sig"
    /\ LET event   == events[i + 1]
           checked == TruthyKey(public_key_pem) /\ TruthySignature(GetSignature(event))
           failed  == checked /\ ~verify_signature(public_key_pem, event.signature, event.hash)
           out     == IF failed THEN Append(findings, Finding("SignatureInvalid", i))
                      ELSE findings
           v       == IF checked THEN ~failed ELSE valid
           calls   == IF checked THEN sig_calls \cup {i} ELSE sig_calls
       IN  /\ findings' = out
           /\ valid' = v
           /\ sig_calls' = calls
           /\ IF i + 1 < Len(events)
              THEN /\ i' = i + 1
                   /\ pc' = "hash"
                   /\ UNCHANGED <<ret, returned>>
              ELSE /\ pc' = "done"
                   /\ ret' = IF v THEN "True" ELSE "False"
                   /\ returned' = Append(returned,
                                         Outcome(IF v THEN "True" ELSE "False", out, calls))
                   /\ UNCHANGED i
    /\ UNCHANGED <<args, artifactVars, toolVars, HAS_CRYPTO, events, public_key_pem, previous_hash>>

\* VerifySignature that checks a present signature whether or not a key was given.
VerifySignature_IgnoresKey ==
    /\ pc = "sig"
    /\ LET event   == events[i + 1]
           checked == TruthySignature(GetSignature(event))
           failed  == checked /\ ~verify_signature(public_key_pem, event.signature, event.hash)
           out     == IF failed THEN Append(findings, Finding("SignatureInvalid", i))
                      ELSE findings
           v       == IF failed THEN FALSE ELSE valid
           calls   == IF checked THEN sig_calls \cup {i} ELSE sig_calls
       IN  /\ findings' = out
           /\ valid' = v
           /\ sig_calls' = calls
           /\ IF i + 1 < Len(events)
              THEN /\ i' = i + 1
                   /\ pc' = "hash"
                   /\ UNCHANGED <<ret, returned>>
              ELSE /\ pc' = "done"
                   /\ ret' = IF v THEN "True" ELSE "False"
                   /\ returned' = Append(returned,
                                         Outcome(IF v THEN "True" ELSE "False", out, calls))
                   /\ UNCHANGED i
    /\ UNCHANGED <<args, artifactVars, toolVars, HAS_CRYPTO, events, public_key_pem, previous_hash>>

\* VerifySignature that checks the signature against the recomputed digest.
VerifySignature_OverDigest ==
    /\ pc = "sig"
    /\ LET event   == events[i + 1]
           checked == TruthyKey(public_key_pem) /\ TruthySignature(GetSignature(event))
           failed  == checked /\ ~verify_signature(public_key_pem, event.signature,
                          compute_hash(event.eventType, event.payload,
                                       Get(event, "prevHash"), event.ts))
           out     == IF failed THEN Append(findings, Finding("SignatureInvalid", i))
                      ELSE findings
           v       == IF failed THEN FALSE ELSE valid
           calls   == IF checked THEN sig_calls \cup {i} ELSE sig_calls
       IN  /\ findings' = out
           /\ valid' = v
           /\ sig_calls' = calls
           /\ IF i + 1 < Len(events)
              THEN /\ i' = i + 1
                   /\ pc' = "hash"
                   /\ UNCHANGED <<ret, returned>>
              ELSE /\ pc' = "done"
                   /\ ret' = IF v THEN "True" ELSE "False"
                   /\ returned' = Append(returned,
                                         Outcome(IF v THEN "True" ELSE "False", out, calls))
                   /\ UNCHANGED i
    /\ UNCHANGED <<args, artifactVars, toolVars, HAS_CRYPTO, events, public_key_pem, previous_hash>>

\* VerifySignature that checks signatures only while the run is still valid.
VerifySignature_SkipsAfterFailure ==
    /\ pc = "sig"
    /\ LET event   == events[i + 1]
           checked == /\ valid
                      /\ TruthyKey(public_key_pem) /\ TruthySignature(GetSignature(event))
           failed  == checked /\ ~verify_signature(public_key_pem, event.signature, event.hash)
           out     == IF failed THEN Append(findings, Finding("SignatureInvalid", i))
                      ELSE findings
           v       == IF failed THEN FALSE ELSE valid
           calls   == IF checked THEN sig_calls \cup {i} ELSE sig_calls
       IN  /\ findings' = out
           /\ valid' = v
           /\ sig_calls' = calls
           /\ IF i + 1 < Len(events)
              THEN /\ i' = i + 1
                   /\ pc' = "hash"
                   /\ UNCHANGED <<ret, returned>>
              ELSE /\ pc' = "done"
                   /\ ret' = IF v THEN "True" ELSE "False"
                   /\ returned' = Append(returned,
                                         Outcome(IF v THEN "True" ELSE "False", out, calls))
                   /\ UNCHANGED i
    /\ UNCHANGED <<args, artifactVars, toolVars, HAS_CRYPTO, events, public_key_pem, previous_hash>>

\* Lines 191-202: the signature check, then the next event or the return.
VerifySignature ==
    /\ pc = "sig"
    /\ LET event   == events[i + 1]
           checked == TruthyKey(public_key_pem) /\ TruthySignature(GetSignature(event))
           failed  == checked /\ ~verify_signature(public_key_pem, event.signature, event.hash)
           out     == IF failed THEN Append(findings, Finding("SignatureInvalid", i))
                      ELSE findings
           v       == IF failed THEN FALSE ELSE valid
           calls   == IF checked THEN sig_calls \cup {i} ELSE sig_calls
       IN  /\ findings' = out
           /\ valid' = v
           /\ sig_calls' = calls
           /\ IF i + 1 < Len(events)
              THEN /\ i' = i + 1
                   /\ pc' = "hash"
                   /\ UNCHANGED <<ret, returned>>
              ELSE /\ pc' = "done"
                   /\ ret' = IF v THEN "True" ELSE "False"
                   /\ returned' = Append(returned,
                                         Outcome(IF v THEN "True" ELSE "False", out, calls))
                   /\ UNCHANGED i
    /\ UNCHANGED <<args, artifactVars, toolVars, HAS_CRYPTO, events, public_key_pem, previous_hash>>

Next == Enter \/ VerifyHash \/ VerifyLink \/ VerifySignature

Spec == Init /\ [][Next]_vars

\* main, lines 248-253, run once more on the same events, with or without
\* --public-key.
Rerun ==
    /\ pc \in {"done", "raised"}
    /\ Len(returned) < MaxRuns
    /\ public_key_pem' \in Keys
    /\ pc' = "call"
    /\ ret' = "pending"
    /\ UNCHANGED <<args, artifactVars, toolVars, HAS_CRYPTO, events, i, valid, previous_hash, findings,
                   sig_calls, returned>>

InitRerun == Init /\ Len(events) <= MaxRerunLen

NextRerun == Next \/ Rerun

SpecRerun == InitRerun /\ [][NextRerun]_vars

\* The sequences verified one after another: none, a sound event, two sound
\* signed events, a replaced payload, a foreign link, a flipped signature,
\* an event without eventType.
RunChoices == {<<>>, <<1>>, <<5, 5>>, <<1, 2>>, <<1, 3>>, <<9, 1>>, <<1, 13>>}

\* verify_chain is called again in the same process, on any sequence and
\* with or without a key.
CallAgain ==
    /\ pc \in {"done", "raised"}
    /\ Len(returned) < MaxRuns
    /\ \E choice \in RunChoices : events' = Chain(choice)
    /\ public_key_pem' \in Keys
    /\ pc' = "call"
    /\ ret' = "pending"
    /\ UNCHANGED <<args, artifactVars, toolVars, HAS_CRYPTO, i, valid, previous_hash, findings,
                   sig_calls, returned>>

InitRuns ==
    /\ HAS_CRYPTO \in BOOLEAN
    /\ \E choice \in RunChoices : events = Chain(choice)
    /\ public_key_pem \in Keys
    /\ pc = "call"
    /\ Fresh
    /\ ToolsIdle
    /\ args = NoArgs
    /\ ArtifactsIdle

NextRuns == Next \/ CallAgain

SpecRuns == InitRuns /\ [][NextRuns]_vars

----------------------------------------------------------------------------
(* verify_chain on signatures in any transport, under any key text *)

MaxSigned == 2

\* A key file that holds no PEM public key.
BadKey == "not a pem"

\* How the signature field of an event arrives: absent, the producer's
\* signature in base64 or in hexadecimal digits, that signature with a byte
\* flipped, hexadecimal digits of other bytes, a text of neither encoding.
TransportKinds ==
    <<"none", "base64", "hex", "flipped", "hex odd", "neither">>

Transported(event, kind) ==
    IF kind = "none" THEN event
    ELSE IF kind = "base64" THEN Signed(event, Base64(Sign("K", event.hash)))
    ELSE IF kind = "hex" THEN Signed(event, Hex(Sign("K", event.hash)))
    ELSE IF kind = "flipped" THEN Signed(event, Base64(Flip(Sign("K", event.hash))))
    ELSE IF kind = "hex odd" THEN Signed(event, HexOdd)
    ELSE Signed(event, Undecodable)

RECURSIVE SignedChain(_)
\* Sound events, linked, the n-th with its signature in the choice[n]-th way.
SignedChain(choice) ==
    IF choice = <<>> THEN <<>>
    ELSE LET s == SignedChain(SubSeq(choice, 1, Len(choice) - 1))
         IN  Append(s, Transported(Body(LastHash(s), "sound"),
                                   TransportKinds[choice[Len(choice)]]))

InitSigned ==
    /\ HAS_CRYPTO \in BOOLEAN
    /\ \E n \in 1..MaxSigned :
          \E choice \in [1..n -> 1..Len(TransportKinds)] : events = SignedChain(choice)
    /\ public_key_pem \in {NoKey, SignerKey, BadKey}
    /\ pc = "call"
    /\ Fresh
    /\ ToolsIdle
    /\ args = NoArgs
    /\ ArtifactsIdle

SpecSigned == InitSigned /\ [][Next]_vars

----------------------------------------------------------------------------
(* main: loading the events *)

MaxTs == 3

MaxObjects == 3

\* An audit event stamped ts, first of its chain.
LoadEvent(ts) ==
    [eventType |-> EventType, payload |-> Payload1, prevHash |-> None,
     ts |-> ts, hash |-> ProducerHash(EventType, Payload1, None, ts)]

\* The keys of the stored objects: one event for each ts, and one object
\* that has no ts.
ObjectKeys == 1..(MaxTs + 1)

\* s3.get_object(Key) read, decoded and parsed.
Bucket(key) ==
    IF key <= MaxTs THEN LoadEvent(key) ELSE Without(LoadEvent(Ts), "ts")

KeySeqs == UNION {[1..n -> ObjectKeys] : n \in 0..MaxObjects}

\* json.load of the file: an array or a single object.
JsonArray(xs) == [t |-> "list", v |-> xs]

JsonObject(x) == [t |-> "dict", v |-> x]

\* A page of list_objects_v2: 'Contents' is absent when it lists no key.
Page(keys) ==
    IF keys = <<>> THEN [KeyCount |-> 0]
    ELSE [KeyCount |-> Len(keys),
          Contents |-> [j \in 1..Len(keys) |-> [Key |-> keys[j]]]]

\* The listing that gives the keys in this order, cut into two pages.
Pages(keys, cut) ==
    <<Page(SubSeq(keys, 1, cut)), Page(SubSeq(keys, cut + 1, Len(keys)))>>

FileArgs ==
    {[file |-> JsonArray([j \in 1..Len(keys) |-> Bucket(keys[j])])] : keys \in KeySeqs}
        \cup {[file |-> JsonObject(Bucket(key))] : key \in ObjectKeys}

S3Args ==
    UNION {{[s3_bucket |-> Pages(keys, cut)] : cut \in 0..Len(keys)} : keys \in KeySeqs}

RECURSIVE Listed(_)
\* The objects the two loops of lines 232-233 visit, in order.
Listed(pages) ==
    IF pages = <<>> THEN <<>>
    ELSE (IF Has(pages[1], "Contents") THEN pages[1].Contents ELSE <<>>)
         \o Listed(Tail(pages))

\* One step of list.sort(key = ts): e goes behind the events whose ts is not
\* greater than its own (the sort is stable).
InsertByTs(sorted, e) ==
    LET k == Cardinality({j \in 1..Len(sorted) : sorted[j].ts <= e.ts})
    IN  SubSeq(sorted, 1, k) \o <<e>> \o SubSeq(sorted, k + 1, Len(sorted))

RECURSIVE SortByTs(_)
SortByTs(s) ==
    IF s = <<>> THEN <<>>
    ELSE InsertByTs(SortByTs(SubSeq(s, 1, Len(s) - 1)), s[Len(s)])

\* main is run without --public-key; boto3 is installed (without it the run
\* ends at line 225 before anything is fetched).
InitLoad ==
    /\ HAS_CRYPTO = TRUE
    /\ public_key_pem = NoKey
    /\ events = <<>>
    /\ pc = "main"
    /\ Fresh
    /\ ToolsIdle
    /\ args \in FileArgs \cup S3Args
    /\ ArtifactsIdle

\* Lines 215-221.
LoadFile ==
    /\ pc = "main"
    /\ Has(args, "file")
    /\ events' = IF args.file.t = "list" THEN args.file.v ELSE <<args.file.v>>
    /\ pc' = "call"
    /\ UNCHANGED <<args, artifactVars, toolVars, HAS_CRYPTO, public_key_pem, i, valid,
                   previous_hash, findings, sig_calls, ret, returned>>

\* Lines 232-236: the next listed object is fetched and appended.
FetchObject ==
    /\ pc = "main"
    /\ ~Has(args, "file") /\ Has(args, "s3_bucket")
    /\ Len(events) < Len(Listed(args.s3_bucket))
    /\ events' = Append(events, Bucket(Listed(args.s3_bucket)[Len(events) + 1].Key))
    /\ UNCHANGED <<args, artifactVars, toolVars, HAS_CRYPTO, public_key_pem, pc, i, valid,
                   previous_hash, findings, sig_calls, ret, returned>>

\* SortEvents that hands the events over as they were listed.
SortEvents_KeepsListingOrder ==
    /\ pc = "main"
    /\ ~Has(args, "file") /\ Has(args, "s3_bucket")
    /\ Len(events) = Len(Listed(args.s3_bucket))
    /\ IF \E j \in 1..Len(events) : ~Has(events[j], "ts")
       THEN /\ pc' = "exit"
            /\ ret' = "exit 1"
       ELSE /\ pc' = "call"
            /\ UNCHANGED ret
    /\ UNCHANGED <<args, artifactVars, toolVars, HAS_CRYPTO, events, public_key_pem, i, valid,
                   previous_hash, findings, sig_calls, returned>>

\* Lines 239-243: every page is read; the sort, whose key raises KeyError
\* for an object without ts, and then sys.exit(1).
SortEvents ==
    /\ pc = "main"
    /\ ~Has(args, "file") /\ Has(args, "s3_bucket")
    /\ Len(events) = Len(Listed(args.s3_bucket))
    /\ IF \E j \in 1..Len(events) : ~Has(events[j], "ts")
       THEN /\ pc' = "exit"
            /\ ret' = "exit 1"
            /\ UNCHANGED events
       ELSE /\ events' = SortByTs(events)
            /\ pc' = "call"
            /\ UNCHANGED ret
    /\ UNCHANGED <<args, artifactVars, toolVars, HAS_CRYPTO, public_key_pem, i, valid,
                   previous_hash, findings, sig_calls, returned>>

NextLoad == LoadFile \/ FetchObject \/ SortEvents \/ Next

SpecLoad == InitLoad /\ [][NextLoad]_vars

----------------------------------------------------------------------------
(* verify_chain on any slice of a log *)

MaxFollowers == 2

\* What the prevHash of the first supplied event can hold: nothing (the key
\* is absent), null, a string that is no digest, the digest of an event that
\* was not supplied.
GenesisKinds == <<"absent", "null", "foreign", "digest">>

\* A first event: hashed by the producer over its fields, and then either
\* left as it was or its payload replaced.
GenesisEvent(kind, replaced) ==
    LET prev  == IF kind = "foreign" THEN DeadBeef
                 ELSE IF kind = "digest"
                      THEN ProducerHash(EventType, Payload2, None, Ts)
                      ELSE None
        event == AuditEvent(IF replaced THEN Payload2 ELSE Payload1, prev,
                            ProducerHash(EventType, Payload1, prev, Ts))
    IN  IF kind = "absent" THEN Without(event, "prevHash") ELSE event

NumFollowers == NumBodies + 1

\* The c-th event that can follow an event whose stored hash is hp: a body
\* with or without a signature, or an event without the prevHash key.
Follower(hp, c) ==
    IF c <= NumBodies THEN Shape(hp, c)
    ELSE Without(AuditEvent(Payload1, None, ProducerHash(EventType, Payload1, None, Ts)),
                 "prevHash")

RECURSIVE Followed(_, _)
Followed(s, choice) ==
    IF choice = <<>> THEN s
    ELSE Followed(Append(s, Follower(LastHash(s), choice[1])), Tail(choice))

InitGenesis ==
    /\ HAS_CRYPTO \in BOOLEAN
    /\ \E k \in 1..Len(GenesisKinds), replaced \in BOOLEAN,
          choice \in UNION {[1..n -> 1..NumFollowers] : n \in 0..MaxFollowers} :
            events = Followed(<<GenesisEvent(GenesisKinds[k], replaced)>>, choice)
    /\ public_key_pem \in Keys
    /\ pc = "call"
    /\ Fresh
    /\ ToolsIdle
    /\ args = NoArgs
    /\ ArtifactsIdle

SpecGenesis == InitGenesis /\ [][Next]_vars

----------------------------------------------------------------------------
(* compute_hash on nested payloads *)

MaxScalar == 2

Scalars == {Scalar(n) : n \in 1..MaxScalar}

\* A list of two values, and a mapping of the keys "a" and "b" to them,
\* inserted in either order.
Compounds(xs, ys) ==
    {List(<<x, y>>) : x \in xs, y \in ys}
        \cup {Dict(<<Item(97, x), Item(98, y)>>) : x \in xs, y \in ys}
        \cup {Dict(<<Item(98, y), Item(97, x)>>) : x \in xs, y \in ys}

Shallow == Scalars \cup Compounds(Scalars, Scalars)

\* Payloads up to two levels deep: lists and mappings, in lists and mappings.
NestedPayloads == Shallow \cup Compounds(Shallow, {Scalar(1)})

\* Two events of one eventType, prevHash and ts: the first hashed by the
\* producer, the second carrying the first one's hash for a payload of its own.
InitCanon ==
    /\ HAS_CRYPTO = TRUE
    /\ \E p, q \in NestedPayloads :
          events = <<AuditEvent(q, None, ProducerHash(EventType, q, None, Ts)),
                     AuditEvent(p, None, ProducerHash(EventType, q, None, Ts))>>
    /\ public_key_pem = NoKey
    /\ pc = "call"
    /\ Fresh
    /\ ToolsIdle
    /\ args = NoArgs
    /\ ArtifactsIdle

SpecCanon == InitCanon /\ [][Next]_vars

----------------------------------------------------------------------------
(* verify_artifacts.py, JSON-export mode *)

MaxArtifacts == 2

\* A text is the sequence of its parts between the separators "://" and "/";
\* the empty text and None are both <<>>, and both are false to Python.
KeyA == <<"artifacts", "a">>

KeyB == <<"artifacts", "b">>

KeyGone == <<"artifacts", "gone">>

\* The files under ARTIFACT_STORAGE_DIR.
Storage == {[key |-> KeyA, data |-> "A"], [key |-> KeyB, data |-> "B"]}

compute_sha256(data) == sha256(data)

get_s3_object(key) ==
    IF \E f \in Storage : f.key = key
    THEN [found |-> TRUE, data |-> (CHOOSE f \in Storage : f.key = key).data]
    ELSE [found |-> FALSE, data |-> ""]

Url(scheme, netloc, key) == <<scheme, netloc>> \o key

startswith_s3(url) == url # <<>> /\ url[1] = "s3"

\* urlparse(url).path.lstrip('/')
UrlKey(url) == SubSeq(url, 3, Len(url))

Artifact(id, sha, s3_key, artifact_url) ==
    [id |-> id, sha256 |-> sha, s3_key |-> s3_key, artifact_url |-> artifact_url,
     provenance_verified |-> TRUE]

ArtifactKinds ==
    <<"keyed", "by url", "other content", "gone", "https", "nowhere",
      "bucket only", "no sha256">>

\* The artifact id of the export, recorded with the digest of the file "a":
\* as test_artifacts.py writes it, or with another locator, or lacking the
\* digest.
ArtifactOf(id, kind) ==
    LET digest == compute_sha256("A")
        at     == Url("s3", "local", KeyA)
    IN  IF kind = "keyed" THEN Artifact(id, digest, KeyA, at)
        ELSE IF kind = "by url" THEN Without(Artifact(id, digest, None, at), "s3_key")
        ELSE IF kind = "other content" THEN Artifact(id, digest, KeyB, Url("s3", "local", KeyB))
        ELSE IF kind = "gone" THEN Artifact(id, digest, KeyGone, Url("s3", "local", KeyGone))
        ELSE IF kind = "https"
             THEN Without(Artifact(id, digest, None, Url("https", "host", KeyA)), "s3_key")
        ELSE IF kind = "nowhere"
             THEN Without(Without(Artifact(id, digest, None, None), "s3_key"), "artifact_url")
        ELSE IF kind = "bucket only" THEN Artifact(id, digest, None, Url("s3", "local", <<>>))
        ELSE Without(Artifact(id, digest, KeyA, at), "sha256")

AuditKinds == <<"none", "linked", "without id", "unlinked">>

\* The audit events the export holds for the artifact id.
AuditsOf(id, kind) ==
    LET audit == [id |-> 100 + id, artifact_id |-> id, hash |-> "mock-hash",
                  signature |-> "mock-sig"]
    IN  IF kind = "none" THEN <<>>
        ELSE IF kind = "linked" THEN <<audit>>
        ELSE IF kind = "without id" THEN <<Without(audit, "id")>>
        ELSE <<Without(audit, "artifact_id")>>

RECURSIVE Concat(_)
Concat(ss) == IF ss = <<>> THEN <<>> ELSE ss[1] \o Concat(Tail(ss))

Export(artifactKind, auditKind) ==
    [artifacts    |-> [id \in 1..Len(artifactKind) |->
                          ArtifactOf(id, ArtifactKinds[artifactKind[id]])],
     audit_events |-> Concat([id \in 1..Len(auditKind) |->
                                 AuditsOf(id, AuditKinds[auditKind[id]])])]

\* An export that has no "artifacts".
BareExport == [audit_events |-> <<>>]

\* Lines 58-65: the tuple made of an artifact of the export.
ArtifactTuple(art) ==
    <<Get(art, "id"), Get(art, "sha256"), Get(art, "s3_key"),
      Get(art, "artifact_url"), Get(art, "provenance_verified")>>

\* Lines 67-70: the audit events by artifact_id; the last one of several stays.
AuditLookup(audits) ==
    LET linked == {j \in 1..Len(audits) :
                      Has(audits[j], "artifact_id") /\ audits[j].artifact_id # 0}
    IN  [aid \in {audits[j].artifact_id : j \in linked} |->
            audits[CHOOSE j \in linked :
                      /\ audits[j].artifact_id = aid
                      /\ \A k \in linked : audits[k].artifact_id = aid => k <= j]]

InitArtifacts ==
    /\ HAS_CRYPTO = FALSE
    /\ events = <<>>
    /\ public_key_pem = NoKey
    /\ pc = "idle"
    /\ Fresh
    /\ ToolsIdle
    /\ args = NoArgs
    /\ \/ json_file = BareExport
       \/ \E n \in 0..MaxArtifacts :
             \E a \in [1..n -> 1..Len(ArtifactKinds)],
                b \in [1..n -> 1..Len(AuditKinds)] : json_file = Export(a, b)
    /\ artifacts_data = <<>>
    /\ audit_lookup = <<>>
    /\ success = TRUE
    /\ lines = <<>>
    /\ artifacts_pc = "start"

chainVars == <<HAS_CRYPTO, events, public_key_pem, pc, i, valid, previous_hash,
               findings, sig_calls, ret, returned, args>>

\* Lines 46-98: the export is read; no artifact, and True is returned.
LoadExport ==
    /\ artifacts_pc = "start"
    /\ LET listed == IF Has(json_file, "artifacts") THEN json_file.artifacts ELSE <<>>
           audits == IF Has(json_file, "audit_events") THEN json_file.audit_events ELSE <<>>
       IN  /\ artifacts_data' = [j \in 1..Len(listed) |-> ArtifactTuple(listed[j])]
           /\ audit_lookup' = AuditLookup(audits)
           /\ artifacts_pc' = IF listed = <<>> THEN "exit 0" ELSE "scan"
    /\ success' = TRUE
    /\ UNCHANGED <<chainVars, toolVars, json_file, lines>>

\* The verdict of lines 120-156 on an artifact whose sha256 is a text.
Verdict(art) ==
    LET art_id       == art[1]
        expected_sha == art[2]
        s3_key       == art[3]
        url          == art[4]
        key          == IF s3_key = <<>> /\ url # <<>> /\ startswith_s3(url)
                        THEN UrlKey(url) ELSE s3_key
        content      == get_s3_object(key)
    IN  IF key = <<>> THEN "FAIL no key"
        ELSE IF ~content.found THEN "FAIL not found"
        ELSE IF compute_sha256(content.data) # expected_sha THEN "FAIL checksum"
        ELSE IF art_id \notin DOMAIN audit_lookup THEN "FAIL no audit"
        ELSE IF ~Has(audit_lookup[art_id], "id") THEN "KeyError"
        ELSE "PASS"

\* Lines 116-156, one artifact: expected_sha[:8] raises TypeError for a
\* missing sha256 (line 118), audit['id'] raises KeyError for an audit event
\* without id (line 156); a failed check sets success and goes on.
CheckArtifact ==
    /\ artifacts_pc = "scan"
    /\ Len(lines) < Len(artifacts_data)
    /\ LET art == artifacts_data[Len(lines) + 1]
       IN  IF art[2] = None
           THEN /\ artifacts_pc' = "TypeError"
                /\ UNCHANGED <<success, lines>>
           ELSE IF Verdict(art) = "KeyError"
           THEN /\ artifacts_pc' = "KeyError"
                /\ UNCHANGED <<success, lines>>
           ELSE /\ lines' = Append(lines, Verdict(art))
                /\ success' = (success /\ Verdict(art) = "PASS")
                /\ UNCHANGED artifacts_pc
    /\ UNCHANGED <<chainVars, toolVars, json_file, artifacts_data, audit_lookup>>

\* Lines 161-173: the loop is over, success is returned and the process exits.
Exit ==
    /\ artifacts_pc = "scan"
    /\ Len(lines) = Len(artifacts_data)
    /\ artifacts_pc' = IF success THEN "exit 0" ELSE "exit 1"
    /\ UNCHANGED <<chainVars, toolVars, json_file, artifacts_data, audit_lookup, success, lines>>

NextArtifacts == LoadExport \/ CheckArtifact \/ Exit

SpecArtifacts == InitArtifacts /\ [][NextArtifacts]_vars

----------------------------------------------------------------------------
(* RepoWriter/server/tools/verify_audit_chain.py, beside the kernel verifier *)

MaxLinked == 3

\* The AuditEvent object of an event of the log.
RepoWriterEvent(event) ==
    [prev_hash |-> Get(event, "prevHash"), event_data |-> event.payload,
     event_hash |-> event.hash, signature |-> GetSignature(event)]

\* Sound events, replaced payloads, foreign and replaced links, flipped
\* signatures.
LinkedShapes == {1, 2, 3, 4, 9}

\* Both verifiers are called on the same sequence.
InitRepoWriter ==
    /\ HAS_CRYPTO = TRUE
    /\ \E n \in 0..MaxLinked :
          \E choice \in [1..n -> LinkedShapes] :
              /\ events = Chain(choice)
              /\ repo_writer = [pc |-> "loop", i |-> 1, ret |-> "pending",
                                audit_events |-> [k \in 1..n |->
                                                     RepoWriterEvent(Chain(choice)[k])]]
    /\ public_key_pem = SignerKey
    /\ pc = "call"
    /\ Fresh
    /\ dispatch = [pc |-> "idle"]
    /\ args = NoArgs
    /\ ArtifactsIdle

\* CompareLink that goes on after a link that does not hold.
CompareLink_GoesOn ==
    /\ repo_writer.pc = "loop"
    /\ repo_writer.i < Len(repo_writer.audit_events)
    /\ repo_writer' = [repo_writer EXCEPT !.i = @ + 1]
    /\ UNCHANGED <<chainVars, artifactVars, dispatch>>

\* Lines 22-26: one iteration of for i in range(1, len(audit_events)).
CompareLink ==
    /\ repo_writer.pc = "loop"
    /\ repo_writer.i < Len(repo_writer.audit_events)
    /\ LET current_event  == repo_writer.audit_events[repo_writer.i + 1]
           previous_event == repo_writer.audit_events[repo_writer.i]
       IN  IF current_event.prev_hash # previous_event.event_hash
           THEN repo_writer' = [repo_writer EXCEPT !.pc = "done", !.ret = "False"]
           ELSE repo_writer' = [repo_writer EXCEPT !.i = @ + 1]
    /\ UNCHANGED <<chainVars, artifactVars, dispatch>>

\* Line 27: the range is exhausted.
ReturnTrue ==
    /\ repo_writer.pc = "loop"
    /\ repo_writer.i >= Len(repo_writer.audit_events)
    /\ repo_writer' = [repo_writer EXCEPT !.pc = "done", !.ret = "True"]
    /\ UNCHANGED <<chainVars, artifactVars, dispatch>>

NextRepoWriter == CompareLink \/ ReturnTrue \/ Next

SpecRepoWriter == InitRepoWriter /\ [][NextRepoWriter]_vars

----------------------------------------------------------------------------
(* infra/lambda/github_dispatch_lambda.py *)

\* A value of the event: a dict (a function of its keys), a string, or None.
JDict(f) == [t |-> "dict", v |-> f]

JStr(s) == [t |-> "str", v |-> s]

JNull == [t |-> "null", v |-> ""]

EmptyDict == JDict(<<>>)

\* d.get(k) of a dict d.
JGet(d, k) == IF k \in DOMAIN d.v THEN d.v[k] ELSE JNull

\* Python truth: None, '' and {} are false.
Truthy(x) ==
    IF x.t = "dict" THEN DOMAIN x.v # {}
    ELSE IF x.t = "str" THEN x.v # ""
    ELSE FALSE

\* x or {}
OrEmpty(x) == IF Truthy(x) THEN x ELSE EmptyDict

\* Lines 23-31; .get on a value that is no dict raises, and the except
\* clause passes on.
FromResponseElements(event) ==
    LET detail == OrEmpty(JGet(event, "detail"))
    IN  IF detail.t # "dict" THEN JNull
        ELSE LET re == OrEmpty(JGet(detail, "responseElements"))
             IN  IF ~Truthy(re) \/ re.t # "dict" THEN JNull
                 ELSE LET km == OrEmpty(JGet(re, "keyMetadata"))
                      IN  IF km.t # "dict" THEN JNull ELSE JGet(km, "arn")

\* Lines 33-39.
FromClientPayload(event) ==
    LET detail == OrEmpty(JGet(event, "detail"))
    IN  IF detail.t # "dict" THEN JNull
        ELSE LET cp == OrEmpty(JGet(detail, "client_payload"))
             IN  IF cp.t # "dict" THEN JNull ELSE JGet(cp, "keyArn")

TopLevelKeys == <<"keyArn", "KeyArn", "key_arn", "arn">>

\* Lines 41-43.
FromTopLevel(event) ==
    LET hits == {n \in 1..Len(TopLevelKeys) : Truthy(JGet(event, TopLevelKeys[n]))}
    IN  IF hits = {} THEN JNull
        ELSE JGet(event, TopLevelKeys[CHOOSE n \in hits : \A m \in hits : n <= m])

\* Lines 45-49.
FromDetail(event) ==
    LET detail == OrEmpty(JGet(event, "detail"))
    IN  IF detail.t # "dict" THEN JNull ELSE JGet(detail, "keyArn")

\* extract_key_arn that looks at the top-level keys first.
extract_key_arn_TopLevelFirst(event) ==
    IF Truthy(FromTopLevel(event)) THEN FromTopLevel(event)
    ELSE IF Truthy(FromResponseElements(event)) THEN FromResponseElements(event)
    ELSE IF Truthy(FromClientPayload(event)) THEN FromClientPayload(event)
    ELSE IF Truthy(FromDetail(event)) THEN FromDetail(event)
    ELSE JNull

extract_key_arn(event) ==
    IF Truthy(FromResponseElements(event)) THEN FromResponseElements(event)
    ELSE IF Truthy(FromClientPayload(event)) THEN FromClientPayload(event)
    ELSE IF Truthy(FromTopLevel(event)) THEN FromTopLevel(event)
    ELSE IF Truthy(FromDetail(event)) THEN FromDetail(event)
    ELSE JNull

\* The places of an event that can hold a key ARN.
Locations ==
    {"response", "client", "keyArn", "KeyArn", "key_arn", "arn", "detail.keyArn"}

Arn(location) == JStr(location)

\* The event that holds an ARN of its own at each of the given places.
EventOf(holds) ==
    LET inner  == [k \in {"responseElements" : x \in holds \cap {"response"}}
                        \cup {"client_payload" : x \in holds \cap {"client"}}
                        \cup {"keyArn" : x \in holds \cap {"detail.keyArn"}} |->
                      IF k = "responseElements"
                      THEN JDict([a \in {"keyMetadata"} |->
                                     JDict([b \in {"arn"} |-> Arn("response")])])
                      ELSE IF k = "client_payload"
                      THEN JDict([a \in {"keyArn"} |-> Arn("client")])
                      ELSE Arn("detail.keyArn")]
        detail == {"detail" : x \in holds \cap {"response", "client", "detail.keyArn"}}
        top    == holds \cap {"keyArn", "KeyArn", "key_arn", "arn"}
    IN  JDict([k \in detail \cup top |-> IF k = "detail" THEN JDict(inner) ELSE Arn(k)])

\* Events with a detail, responseElements or arn that is not what the handler
\* looks for.
OddEvents ==
    {JDict([k \in {"detail", "arn"} |-> IF k = "detail" THEN JStr("text") ELSE Arn("arn")]),
     JDict([k \in {"detail"} |->
               JDict([a \in {"responseElements", "keyArn"} |->
                         IF a = "responseElements" THEN JStr("text")
                         ELSE Arn("detail.keyArn")])]),
     JDict([k \in {"detail"} |->
               JDict([a \in {"responseElements", "client_payload"} |->
                         IF a = "responseElements"
                         THEN JDict([b \in {"keyMetadata"} |->
                                        JDict([c \in {"arn"} |-> JStr("")])])
                         ELSE JDict([b \in {"keyArn"} |-> Arn("client")])])]),
     JDict([k \in {"detail"} |-> JNull]),
     JDict([k \in {"detail"} |-> JStr("text")])}

\* os.environ.get(k): the value, or None (here '', false as well).
EnvGet(environ, k) == IF k \in DOMAIN environ THEN environ[k] ELSE ""

Environs ==
    {[k \in names |-> IF k = "SECRET_NAME" THEN secret
                      ELSE IF k = "GITHUB_SECRET_NAME" THEN "secret-2" ELSE "Fork"] :
        names \in SUBSET {"SECRET_NAME", "GITHUB_SECRET_NAME", "REPO_OWNER"},
        secret \in {"", "secret-1"}}

\* What secretsmanager holds under a name: a string, a binary, neither, or
\* nothing (get_secret_value raises).
SecretKinds == {"string", "binary", "neither", "missing"}

\* get_github_pat, lines 12-19.
get_github_pat(secret_name, kind) ==
    IF kind = "string" THEN [raised |-> FALSE, token |-> "pat of " \o secret_name]
    ELSE IF kind = "binary" THEN [raised |-> FALSE, token |-> "pat of " \o secret_name]
    ELSE [raised |-> TRUE, token |-> ""]

\* How api.github.com answers the request.
GitHubKinds == {"no content", "http error"}

InitDispatch ==
    /\ HAS_CRYPTO = FALSE
    /\ events = <<>>
    /\ public_key_pem = NoKey
    /\ pc = "idle"
    /\ Fresh
    /\ args = NoArgs
    /\ ArtifactsIdle
    /\ repo_writer = [pc |-> "idle"]
    /\ \E event \in {EventOf(holds) : holds \in SUBSET Locations} \cup OddEvents,
          environ \in Environs, secret \in SecretKinds, github \in GitHubKinds :
            dispatch = [pc |-> "start", event |-> event, environ |-> environ,
                        secret |-> secret, github |-> github, secret_name |-> "",
                        token |-> "", key_arn |-> JNull, requests |-> <<>>,
                        response |-> [statusCode |-> 0, dispatched |-> FALSE]]

\* Lines 84-89.
ReadEnviron ==
    /\ dispatch.pc = "start"
    /\ LET first       == EnvGet(dispatch.environ, "SECRET_NAME")
           secret_name == IF first # "" THEN first
                          ELSE EnvGet(dispatch.environ, "GITHUB_SECRET_NAME")
       IN  dispatch' = IF secret_name = ""
                       THEN [dispatch EXCEPT !.pc = "raised"]
                       ELSE [dispatch EXCEPT !.pc = "secret", !.secret_name = secret_name]
    /\ UNCHANGED <<chainVars, artifactVars, repo_writer>>

\* Line 91.
GetSecret ==
    /\ dispatch.pc = "secret"
    /\ LET got == get_github_pat(dispatch.secret_name, dispatch.secret)
       IN  dispatch' = IF got.raised THEN [dispatch EXCEPT !.pc = "raised"]
                       ELSE [dispatch EXCEPT !.pc = "extract", !.token = got.token]
    /\ UNCHANGED <<chainVars, artifactVars, repo_writer>>

\* Lines 92-95.
ExtractKey ==
    /\ dispatch.pc = "extract"
    /\ LET key_arn == extract_key_arn(dispatch.event)
       IN  dispatch' = IF ~Truthy(key_arn) THEN [dispatch EXCEPT !.pc = "raised"]
                       ELSE [dispatch EXCEPT !.pc = "post", !.key_arn = key_arn]
    /\ UNCHANGED <<chainVars, artifactVars, repo_writer>>

\* Line 98 and post_repo_dispatch, lines 52-81: the request goes out, and
\* urlopen returns or raises.
PostDispatch ==
    /\ dispatch.pc = "post"
    /\ LET owner   == IF EnvGet(dispatch.environ, "REPO_OWNER") # ""
                      THEN EnvGet(dispatch.environ, "REPO_OWNER") ELSE "ILLUVRSE"
           request == [owner |-> owner, repo |-> "Main", token |-> dispatch.token,
                       event_type |-> "kms-key-rotation", keyArn |-> dispatch.key_arn]
       IN  dispatch' = [dispatch EXCEPT
                           !.requests = Append(@, request),
                           !.pc = IF dispatch.github = "http error" THEN "raised"
                                  ELSE "posted"]
    /\ UNCHANGED <<chainVars, artifactVars, repo_writer>>

\* Lines 99-102.
Respond ==
    /\ dispatch.pc = "posted"
    /\ dispatch' = [dispatch EXCEPT !.pc = "done",
                                    !.response = [statusCode |-> 200, dispatched |-> TRUE]]
    /\ UNCHANGED <<chainVars, artifactVars, repo_writer>>

NextDispatch == ReadEnviron \/ GetSecret \/ ExtractKey \/ PostDispatch \/ Respond

SpecDispatch == InitDispatch /\ [][NextDispatch]_vars

----------------------------------------------------------------------------
(* What the properties speak of *)

N == Len(events)

Positions == 0..(N - 1)

Event(n) == events[n + 1]

WellFormed(event) == \A n \in 1..Len(RequiredFields) : Has(event, RequiredFields[n])

\* Invariant 1 of the data model: hash == H(canonicalize(the hashed fields)).
HashOk(event) ==
    /\ WellFormed(event)
    /\ event.hash = ProducerHash(event.eventType, event.payload,
                                 Get(event, "prevHash"), event.ts)

\* Invariant 2: prevHash of a non-first event is the predecessor's stored hash.
LinkOk(n) == n > 0 => Get(Event(n), "prevHash") = Get(Event(n - 1), "hash")

HasSignature(event) == Has(event, "signature") /\ event.signature.enc # "none"

\* The signature is the producer's signature over the stored hash.
Validates(event, pem) ==
    /\ pem = SignerKey
    /\ event.signature.enc = "base64"
    /\ event.signature.bytes = Sign("K", event.hash)

KeySupplied == public_key_pem # NoKey

\* Invariant 3: with a key supplied, a present signature validates.
SigOk(event) == (KeySupplied /\ HasSignature(event)) => Validates(event, public_key_pem)

Emitted(kind, n) == \E j \in 1..Len(findings) : findings[j] = Finding(kind, n)

At(kind) == {n \in Positions : Emitted(kind, n)}

\* How far the run has come with event n.
HashChecked(n) == n < i \/ (n = i /\ pc \in {"link", "sig", "done"})

LinkChecked(n) == n < i \/ (n = i /\ pc \in {"sig", "done"})

SigChecked(n) == n < i \/ (n = i /\ pc = "done")

Returned == pc = "done" /\ N > 0

AllWellFormed == \A n \in Positions : WellFormed(Event(n))

\* C1: a non-empty sequence whose events all satisfy the three invariants is
\* verified with no finding and valid = true.
C1_ConsistentPasses ==
    (Returned /\ \A n \in Positions :
                    LinkOk(n) /\ SigOk(Event(n)) /\ HashOk(Event(n)))
        => (findings = <<>> /\ valid /\ ret = "True")

C1_Witness ==
    /\ Returned /\ N = MaxLen /\ HAS_CRYPTO /\ KeySupplied
    /\ \A n \in Positions :
          HashOk(Event(n)) /\ LinkOk(n) /\ HasSignature(Event(n)) /\ SigOk(Event(n))
    /\ ret = "True"

\* C2: on well-formed events the run never stops early: it does not raise,
\* it returns after the last event only, and what it has printed by then
\* holds a HashMismatch for exactly the events whose digest differs from the
\* stored hash and a ChainBreak for exactly the events n > 0 whose prevHash
\* differs from the stored hash of event n-1, however many these are.
C2_NoShortCircuit ==
    /\ (pc = "raised") => ~WellFormed(Event(i))
    /\ (pc = "done" /\ N > 0) => i = N - 1
    /\ (Returned /\ AllWellFormed) =>
          \A n \in Positions :
              /\ Emitted("HashMismatch", n) <=> ~HashOk(Event(n))
              /\ Emitted("ChainBreak", n) <=> ~LinkOk(n)

C2_Witness ==
    /\ Returned /\ N = MaxLen
    /\ \A n \in Positions : Emitted("HashMismatch", n)
    /\ \A n \in Positions \ {0} : Emitted("ChainBreak", n)

\* Everything is consistent except, possibly, what depends on the prevHash of
\* event n: the other events' hashes, the other links, all signatures.
ConsistentBut(n) ==
    /\ \A m \in Positions : WellFormed(Event(m)) /\ SigOk(Event(m))
    /\ \A m \in Positions \ {n} : LinkOk(m) /\ HashOk(Event(m))

\* C3: when the prevHash of one event n > 0 of an otherwise consistent
\* sequence is set to something else than the stored hash of event n-1, the
\* run reports one ChainBreak, at n, and nothing at all for the events after
\* n (which is what it reports for them without the change).
C3_OneChainBreak ==
    \A n \in Positions \ {0} :
        (Returned /\ ~LinkOk(n) /\ ConsistentBut(n)) =>
            /\ At("ChainBreak") = {n}
            /\ Len(SelectSeq(findings, LAMBDA f : f.kind = "ChainBreak")) = 1
            /\ \A j \in 1..Len(findings) : findings[j].pos = n

C3_Witness ==
    /\ Returned /\ N = MaxLen /\ ConsistentBut(1) /\ ~LinkOk(1)
    /\ ~HashOk(Event(1))
    /\ findings = <<Finding("HashMismatch", 1), Finding("ChainBreak", 1)>>

\* The sequence is a consistent one in which the payload of event k was
\* replaced by a different one, the stored hash being left as it was.
PayloadChanged(k) ==
    /\ \A m \in Positions : WellFormed(Event(m)) /\ LinkOk(m) /\ SigOk(Event(m))
    /\ \A m \in Positions \ {k} : HashOk(Event(m))
    /\ \E p \in Payloads :
          /\ dumps(normalize(p)) # dumps(normalize(Event(k).payload))
          /\ Event(k).hash = ProducerHash(Event(k).eventType, p,
                                          Get(Event(k), "prevHash"), Event(k).ts)

\* C4: a payload changed in one event k without its stored hash gives one
\* HashMismatch, at k, and no other finding anywhere.
C4_OneHashMismatch ==
    \A k \in Positions :
        (Returned /\ PayloadChanged(k)) =>
            (findings = <<Finding("HashMismatch", k)>> /\ ret = "False")

C4_Witness ==
    /\ Returned /\ N = MaxLen /\ PayloadChanged(1) /\ KeySupplied /\ HAS_CRYPTO
    /\ HasSignature(Event(1)) /\ HasSignature(Event(2))
    /\ findings = <<Finding("HashMismatch", 1)>>

\* C5: an event n > 0 whose prevHash is not its predecessor's stored hash but
\* whose own hash is computed over its fields, in an otherwise consistent
\* sequence, gives one ChainBreak at n, no HashMismatch, and valid = false.
C5_WrongLinkRightHash ==
    \A n \in Positions \ {0} :
        (Returned /\ ~LinkOk(n) /\ ConsistentBut(n) /\ HashOk(Event(n))) =>
            (findings = <<Finding("ChainBreak", n)>> /\ ~valid /\ ret = "False")

C5_Witness ==
    /\ Returned /\ N = MaxLen /\ ConsistentBut(2) /\ ~LinkOk(2) /\ HashOk(Event(2))
    /\ Get(Event(2), "prevHash") = DeadBeef
    /\ findings = <<Finding("ChainBreak", 2)>> /\ ret = "False"

\* C6: valid is true exactly as long as no finding was emitted, the value
\* returned is that of valid, and within a run valid never goes from false
\* back to true.
C6_ValidIffNoFinding ==
    /\ [](/\ valid <=> findings = <<>>
          /\ \A j \in 1..Len(findings) :
                findings[j].kind \in {"HashMismatch", "ChainBreak", "SignatureInvalid"}
          /\ pc = "done" => ret = (IF findings = <<>> THEN "True" ELSE "False"))
    /\ [][(~valid /\ pc # "call") => ~valid']_vars

C6_Witness ==
    /\ Returned /\ N = MaxLen /\ HAS_CRYPTO /\ KeySupplied
    /\ findings = <<Finding("HashMismatch", 0)>>
    /\ sig_calls = Positions
    /\ ~valid /\ ret = "False"

\* C7: without a public key, or for an event without a signature, no
\* SignatureInvalid is emitted, whatever the signature is; and a run without
\* a key, or on events without signatures, returns true exactly when every
\* hash and every link is right.
C7_SkippedSignatures ==
    /\ \A n \in Positions :
          (~KeySupplied \/ ~HasSignature(Event(n))) => ~Emitted("SignatureInvalid", n)
    /\ (Returned /\ (~KeySupplied \/ \A n \in Positions : ~HasSignature(Event(n))))
          => (ret = "True" <=> \A n \in Positions : HashOk(Event(n)) /\ LinkOk(n))

C7_Witness ==
    /\ Returned /\ N = MaxLen /\ HAS_CRYPTO /\ ~KeySupplied
    /\ \A n \in Positions : HashOk(Event(n)) /\ LinkOk(n)
    /\ HasSignature(Event(1)) /\ ~Validates(Event(1), SignerKey)
    /\ findings = <<>> /\ ret = "True"

\* What a caller has of a completed run: the value returned and the lines
\* printed.
Visible(r) == <<r.ret, r.findings>>

SignaturesSkipped(r) ==
    /\ r.sig_calls = {}
    /\ \E n \in 1..Len(r.events) : HasSignature(r.events[n])

SignaturesVerified(r) ==
    /\ HAS_CRYPTO
    /\ r.ret = "True"
    /\ r.events # <<>>
    /\ r.sig_calls = 0..(Len(r.events) - 1)

\* C8: a run whose signature checks were skipped gives its caller something
\* else than a run on the same events in which every signature was verified
\* and passed.
C8_SkippedIsTold ==
    \A a, b \in 1..Len(returned) :
        (/\ returned[a].events = returned[b].events
         /\ SignaturesSkipped(returned[a])
         /\ SignaturesVerified(returned[b]))
            => Visible(returned[a]) # Visible(returned[b])

\* C9: with a key supplied, a signature that does not validate over the
\* event's hash gives SignatureInvalid and valid = false, and the producer's
\* own signature gives none, with and without the cryptography library.
C9_AlteredSignatureRejected ==
    \A n \in Positions :
        (SigChecked(n) /\ KeySupplied /\ HasSignature(Event(n))) =>
            IF Validates(Event(n), public_key_pem)
            THEN ~Emitted("SignatureInvalid", n)
            ELSE Emitted("SignatureInvalid", n) /\ ~valid

LacksHashedField(event) ==
    /\ Has(event, "eventType") /\ Has(event, "hash")
    /\ ~Has(event, "payload") \/ ~Has(event, "ts")

\* C10: an event without payload or ts gets a MissingField finding, the run
\* goes on with the next event from the event's stored hash, and it ends with
\* valid = false, not with an error.
C10_MissingFieldRecorded ==
    \A n \in Positions :
        (LacksHashedField(Event(n)) /\ (n < i \/ (n = i /\ pc \notin {"call", "hash"}))) =>
            /\ ~(pc = "raised" /\ i = n)
            /\ Emitted("MissingField", n)
            /\ (i = n + 1 /\ pc \in {"hash", "link"}) => previous_hash = Event(n).hash
            /\ pc = "done" => ret = "False"

\* C11: an empty sequence is not verified as passing: the run does not
\* return valid = true for it.
C11_EmptyAborts == (events = <<>>) => ~(pc = "done" /\ ret = "True")

LacksStructuralField(event) == ~Has(event, "hash") \/ ~Has(event, "eventType")

\* C12: when the run aborts at an event without hash or eventType, no
\* finding has been produced for the events before it.
C12_AbortBeforeFindings ==
    (pc = "raised" /\ LacksStructuralField(Event(i))) => findings = <<>>

\* C15: no step of a verification run changes the event sequence or anything
\* in an event, nested payload mappings and their key order included.
C15_InputUnchanged == [][events' = events]_vars

C15_Witness ==
    /\ Returned /\ N = MaxLen
    /\ \A n \in Positions :
          Has(Event(n), "payload") /\ Event(n).payload # normalize(Event(n).payload)
    /\ returned[1].events = events

\* C17: the chain state is None until the link check of the first event, and
\* from the link check of event n on it is the stored hash of event n, not
\* the recomputed digest, whatever event n was found to be.
C17_ChainState ==
    /\ (pc = "call" \/ (i = 0 /\ pc \in {"hash", "link"})) => previous_hash = None
    /\ (i > 0 /\ pc \in {"hash", "link"}) => previous_hash = Event(i - 1).hash
    /\ (pc = "sig" \/ Returned) => previous_hash = Event(i).hash

C17_Witness ==
    /\ pc = "hash" /\ i = 2
    /\ findings = <<Finding("HashMismatch", 1), Finding("ChainBreak", 1),
                    Finding("SignatureInvalid", 1)>>
    /\ previous_hash = Event(1).hash
    /\ previous_hash # compute_hash(Event(1).eventType, Event(1).payload,
                                    Get(Event(1), "prevHash"), Event(1).ts)

\* C19: the signature is checked against the stored hash: an event whose
\* stored hash is not its digest but whose signature is the producer's over
\* the stored hash gets a HashMismatch and no SignatureInvalid.
C19_SignatureOverStoredHash ==
    \A n \in Positions :
        (/\ SigChecked(n) /\ KeySupplied /\ HasSignature(Event(n))
         /\ Validates(Event(n), public_key_pem) /\ ~HashOk(Event(n)))
            => (Emitted("HashMismatch", n) /\ ~Emitted("SignatureInvalid", n))

C19_Witness ==
    /\ Returned /\ N = MaxLen /\ HAS_CRYPTO /\ KeySupplied
    /\ HasSignature(Event(1)) /\ Validates(Event(1), public_key_pem)
    /\ ~HashOk(Event(1))
    /\ sig_calls = Positions
    /\ findings = <<Finding("HashMismatch", 1)>>

KindRank(kind) ==
    IF kind = "HashMismatch" THEN 1 ELSE IF kind = "ChainBreak" THEN 2 ELSE 3

\* C20: findings come in event order and, for one event, in the order
\* HashMismatch, ChainBreak, SignatureInvalid, each at most once.
C20_FindingsInOrder ==
    \A j, k \in 1..Len(findings) :
        j < k => \/ findings[j].pos < findings[k].pos
                 \/ /\ findings[j].pos = findings[k].pos
                    /\ KindRank(findings[j].kind) < KindRank(findings[k].kind)

C20_Witness ==
    /\ Returned /\ N = MaxLen
    /\ findings = <<Finding("HashMismatch", 0),
                    Finding("HashMismatch", 1), Finding("ChainBreak", 1),
                    Finding("SignatureInvalid", 1),
                    Finding("ChainBreak", 2), Finding("SignatureInvalid", 2)>>

\* The run of main has handed the events to verify_chain.
Handed == pc \notin {"main", "exit"}

Occurrences(s, x) == Cardinality({j \in 1..Len(s) : s[j] = x})

\* The stored objects the listing names, in listing order.
Fetched == [j \in 1..Len(Listed(args.s3_bucket)) |->
               Bucket(Listed(args.s3_bucket)[j].Key)]

\* C14: what main hands to verify_chain is, for an object store, the fetched
\* events of all pages in ascending ts order (each as often as it was
\* fetched); for a file holding an array, the array in its order; for a file
\* holding one object, the sequence of that object alone.
C14_LoadedSequence ==
    Handed =>
        /\ Has(args, "s3_bucket") =>
              /\ \A j, k \in 1..Len(events) : j < k => events[j].ts <= events[k].ts
              /\ Len(events) = Len(Fetched)
              /\ \A j \in 1..Len(Fetched) :
                    Occurrences(events, Fetched[j]) = Occurrences(Fetched, Fetched[j])
        /\ (Has(args, "file") /\ args.file.t = "list") => events = args.file.v
        /\ (Has(args, "file") /\ args.file.t = "dict") =>
              (Len(events) = 1 /\ events[1] = args.file.v)

C14_Witness ==
    /\ pc = "call"
    /\ Has(args, "s3_bucket")
    /\ \A n \in 1..Len(args.s3_bucket) : Has(args.s3_bucket[n], "Contents")
    /\ Len(events) = MaxObjects
    /\ events # Fetched
    /\ Fetched[1].ts > Fetched[MaxObjects].ts

\* C18: whatever the prevHash of the first supplied event holds, no
\* ChainBreak is printed for it; a ChainBreak is printed for the event at
\* position n exactly if n > 0 and its prevHash differs from the stored hash
\* of the event at n-1.
C18_PositionalGenesis ==
    /\ ~Emitted("ChainBreak", 0)
    /\ \A n \in Positions :
          /\ Emitted("ChainBreak", n) =>
                (n > 0 /\ Get(Event(n), "prevHash") # Event(n - 1).hash)
          /\ (LinkChecked(n) /\ n > 0 /\ Get(Event(n), "prevHash") # Event(n - 1).hash)
                => Emitted("ChainBreak", n)

C18_Witness ==
    /\ Returned /\ N = MaxFollowers + 1
    /\ Has(Event(0), "prevHash") /\ Event(0).prevHash # None
    /\ HashOk(Event(0))
    /\ ~Has(Event(1), "prevHash")
    /\ Get(Event(2), "prevHash") = Event(1).hash
    /\ At("ChainBreak") = {1}

Lookup(kvs, key) == kvs[CHOOSE j \in 1..Len(kvs) : kvs[j].k = key].val

KeysOf(kvs) == {kvs[j].k : j \in 1..Len(kvs)}

RECURSIVE StructEqual(_, _)
\* Equality of two JSON values: scalars by value, lists element by element
\* in order, mappings key by key whatever the order of insertion.
StructEqual(x, y) ==
    IF x.t # y.t THEN FALSE
    ELSE IF x.t = "scalar" THEN x.v = y.v
    ELSE IF x.t = "list"
         THEN /\ Len(x.items) = Len(y.items)
              /\ \A j \in 1..Len(x.items) : StructEqual(x.items[j], y.items[j])
         ELSE /\ KeysOf(x.items) = KeysOf(y.items)
              /\ \A key \in KeysOf(x.items) :
                    StructEqual(Lookup(x.items, key), Lookup(y.items, key))

\* C13: with eventType, prevHash and ts the same, the digest of a payload is
\* the digest of another payload exactly if the two are equal but for the
\* insertion order of mapping keys, at any depth and inside lists too; two
\* payloads whose lists differ in the order of their elements have different
\* digests.
C13_CanonicalHash ==
    Returned =>
        /\ ~Emitted("HashMismatch", 0)
        /\ Emitted("HashMismatch", 1) <=> ~StructEqual(Event(0).payload, Event(1).payload)

C13_Witness ==
    /\ Returned
    /\ Event(0).payload = List(<<Dict(<<Item(97, Scalar(1)), Item(98, Scalar(2))>>), Scalar(1)>>)
    /\ Event(1).payload = List(<<Dict(<<Item(98, Scalar(2)), Item(97, Scalar(1))>>), Scalar(1)>>)
    /\ At("HashMismatch") = {}

ListedArtifacts == IF Has(json_file, "artifacts") THEN json_file.artifacts ELSE <<>>

Finished == artifacts_pc \in {"exit 0", "exit 1", "TypeError", "KeyError"}

\* The storage key of an artifact: its s3_key, or the path of its s3:// URL.
KeyOf(art) ==
    IF Get(art, "s3_key") # <<>> THEN art.s3_key
    ELSE IF Get(art, "artifact_url") # <<>> /\ art.artifact_url[1] = "s3"
         THEN SubSeq(art.artifact_url, 3, Len(art.artifact_url))
         ELSE <<>>

\* The four checks: a key is resolvable, the object is found, its digest is
\* the recorded one, an audit event refers to the artifact's id.
Passes(art) ==
    /\ KeyOf(art) # <<>>
    /\ \E f \in Storage : f.key = KeyOf(art) /\ sha256(f.data) = Get(art, "sha256")
    /\ \E j \in 1..Len(json_file.audit_events) :
          /\ Has(json_file.audit_events[j], "artifact_id")
          /\ json_file.audit_events[j].artifact_id = art.id

\* C16: verify_artifacts.py ends with exit status 0 exactly if every listed
\* artifact passes the four checks; however many artifacts fail, every
\* artifact has been given its verdict by the end; an empty list ends with 0.
C16_SuccessIffAllPass ==
    Finished =>
        /\ (artifacts_pc = "exit 0") <=>
              \A j \in 1..Len(ListedArtifacts) : Passes(ListedArtifacts[j])
        /\ Len(lines) = Len(ListedArtifacts)

\* What the checks of one event find, each from what it may look at: the hash
\* check from the event, the link check from the event and its predecessor,
\* the signature check from the event, the key and the library.
HashVerdict(event) ==
    IF HashOk(event) THEN <<>> ELSE <<"HashMismatch">>

LinkVerdict(before, event) ==
    IF Get(event, "prevHash") = before.hash THEN <<>> ELSE <<"ChainBreak">>

SignatureVerdict(event, pem, crypto) ==
    IF pem # NoKey /\ HasSignature(event) /\ crypto /\ ~Validates(event, pem)
    THEN <<"SignatureInvalid">> ELSE <<>>

VerdictsAt(n) ==
    LET kinds == HashVerdict(Event(n))
                 \o (IF n > 0 THEN LinkVerdict(Event(n - 1), Event(n)) ELSE <<>>)
                 \o SignatureVerdict(Event(n), public_key_pem, HAS_CRYPTO)
    IN  [j \in 1..Len(kinds) |-> Finding(kinds[j], n)]

RECURSIVE Folded(_)
\* The verdicts of the first n events, merged in event order.
Folded(n) == IF n = 0 THEN <<>> ELSE Folded(n - 1) \o VerdictsAt(n - 1)

\* C21: the checks are local.  What the sequential pass has printed when it
\* comes to event i, and when it returns, is the in-order merge of verdicts
\* each of which is a function of one event (hash, signature, with the key)
\* or of two neighbours (link), and valid is true exactly if there is none:
\* in whatever order these verdicts are computed, the merge is the same.
C21_LocalChecks ==
    /\ (pc = "hash" /\ i > 0) => findings = Folded(i)
    /\ Returned => (findings = Folded(N) /\ (valid <=> Folded(N) = <<>>))

C21_Witness ==
    /\ Returned /\ N = MaxFollowers + 1
    /\ At("HashMismatch") = {0, 2}
    /\ At("ChainBreak") = {1}
    /\ At("SignatureInvalid") = {1, 2}
    /\ findings = Folded(N)

\* C22: every call starts from the unconstrained chain state, whatever the
\* call before it left; what a call returns and prints is a function of its
\* events and key, so it is the same after another sequence was verified as
\* without it, and two calls on the same events and key give the same
\* findings and the same result.
C22_IndependentRuns ==
    /\ (pc = "hash" /\ i = 0) => (previous_hash = None /\ valid /\ findings = <<>>)
    /\ \A j, k \in 1..Len(returned) :
          (returned[j].events = returned[k].events /\ returned[j].key = returned[k].key)
              => (returned[j].ret = returned[k].ret
                      /\ returned[j].findings = returned[k].findings)
    /\ Returned => (findings = Folded(N) /\ (ret = "True" <=> Folded(N) = <<>>))

C22_Witness ==
    /\ pc = "done" /\ Len(returned) = MaxRuns
    /\ returned[1].ret = "False" /\ returned[1].findings # <<>>
    /\ returned[1].events # events
    /\ N > 0 /\ ret = "True" /\ findings = <<>>

\* C23: a signature the producer made over the event's hash with the key's
\* private half, arriving as hexadecimal digits, is accepted: its event gets
\* no SignatureInvalid.
C23_HexAccepted ==
    \A n \in Positions :
        (/\ SigChecked(n)
         /\ public_key_pem = SignerKey
         /\ Has(Event(n), "signature")
         /\ Event(n).signature = Hex(Sign("K", Event(n).hash)))
            => ~Emitted("SignatureInvalid", n)

\* The signature check of an event cannot succeed: the key text is no key,
\* the signature text is of neither encoding, or the bytes are not the
\* signature made with the key over the event's hash.
SignatureFails(event, pem) ==
    \/ pem # SignerKey
    \/ event.signature.enc \notin {"base64", "hex", "hex odd"}
    \/ event.signature.bytes # Sign("K", event.hash)

\* C24: the signature check never ends the run.  With a key text and a
\* signature, an unparsable key, a signature of neither encoding and a failed
\* check each give SignatureInvalid for the event and valid = false, and the
\* run goes on to the next event and returns.
C24_SignatureErrorsRecorded ==
    /\ pc # "raised"
    /\ \A n \in Positions :
          (/\ SigChecked(n)
           /\ KeySupplied /\ HasSignature(Event(n))
           /\ SignatureFails(Event(n), public_key_pem))
              => (Emitted("SignatureInvalid", n) /\ ~valid)
    /\ (pc = "done") => i = N - 1

\* C25: on every sequence the RepoWriter verify_chain returns False exactly
\* if some event at a position n >= 1 has a prevHash other than the stored
\* hash of the event before it, which are the positions of the kernel
\* verifier's ChainBreak findings; it returns True for no event and for one
\* event; payloads, recomputed hashes and signatures do not change its result.
C25_LinkAgreement ==
    repo_writer.pc = "done" =>
        /\ repo_writer.ret = "False" <=>
              \E n \in Positions : n > 0 /\ Get(Event(n), "prevHash") # Event(n - 1).hash
        /\ N <= 1 => repo_writer.ret = "True"
        /\ pc = "done" => (repo_writer.ret = "False" <=> At("ChainBreak") # {})

C25_Witness ==
    /\ repo_writer.pc = "done" /\ Returned /\ N = MaxLinked
    /\ At("ChainBreak") = {}
    /\ At("HashMismatch") # {} /\ At("SignatureInvalid") # {}
    /\ ret = "False"
    /\ repo_writer.ret = "True"

\* The places of a key ARN in the order of precedence.
Paths ==
    <<<<"detail", "responseElements", "keyMetadata", "arn">>,
      <<"detail", "client_payload", "keyArn">>,
      <<"keyArn">>, <<"KeyArn">>, <<"key_arn">>, <<"arn">>,
      <<"detail", "keyArn">>>>

RECURSIVE Reach(_, _)
\* The value at a path of dict keys, None where the path does not lead.
Reach(x, path) ==
    IF path = <<>> THEN x
    ELSE IF x.t # "dict" \/ path[1] \notin DOMAIN x.v THEN JNull
    ELSE Reach(x.v[path[1]], Tail(path))

FirstArn(event) ==
    LET hits == {n \in 1..Len(Paths) : Truthy(Reach(event, Paths[n]))}
    IN  IF hits = {} THEN JNull
        ELSE Reach(event, Paths[CHOOSE n \in hits : \A m \in hits : n <= m])

SecretNameSet ==
    EnvGet(dispatch.environ, "SECRET_NAME") # ""
        \/ EnvGet(dispatch.environ, "GITHUB_SECRET_NAME") # ""

\* C26: a dispatch request is sent only with a secret name configured and a
\* key ARN in the event, and carries the ARN of the first place in the order
\* of precedence that holds one; without either the handler raises and sends
\* nothing; the 200 response with dispatched = true comes only after the
\* request was sent and answered without error.
C26_DispatchAfterChecks ==
    /\ dispatch.requests # <<>> =>
          /\ SecretNameSet /\ Truthy(FirstArn(dispatch.event))
          /\ Len(dispatch.requests) = 1
          /\ dispatch.requests[1].keyArn = FirstArn(dispatch.event)
    /\ (dispatch.pc \in {"post", "posted", "done"}) =>
          dispatch.key_arn = FirstArn(dispatch.event)
    /\ (dispatch.pc \in {"extract", "post", "posted", "done"}) => SecretNameSet
    /\ (dispatch.pc \in {"done", "raised"}
            /\ (~SecretNameSet \/ ~Truthy(FirstArn(dispatch.event)))) =>
          (dispatch.pc = "raised" /\ dispatch.requests = <<>>)
    /\ (dispatch.response.statusCode = 200 \/ dispatch.response.dispatched) =>
          /\ dispatch.pc = "done"
          /\ dispatch.response.statusCode = 200 /\ dispatch.response.dispatched
          /\ Len(dispatch.requests) = 1 /\ dispatch.github # "http error"

C26_Witness ==
    /\ dispatch.pc = "done"
    /\ dispatch.response.statusCode = 200
    /\ "SECRET_NAME" \notin DOMAIN dispatch.environ
    /\ dispatch.secret = "binary"
    /\ Truthy(Reach(dispatch.event, Paths[6]))
    /\ Truthy(Reach(dispatch.event, Paths[7]))
    /\ ~Truthy(Reach(dispatch.event, Paths[1]))
    /\ dispatch.requests = <<[owner |-> "ILLUVRSE", repo |-> "Main",
                              token |-> "pat of secret-2",
                              event_type |-> "kms-key-rotation",
                              keyArn |-> Arn("client")]>>

====
